---- MODULE Spec2Model ----
(***************************************************************************)
(* State-machine model of the chat front-end's zustand store (useAIStore)  *)
(* and of the ChatContainer / Header handlers that drive it.               *)
(*                                                                         *)
(* Every set() of the store is one step.  An asynchronous sendMessage      *)
(* invocation is a record in calls whose pc says where it stands; code     *)
(* that runs between two awaits of a network call is a synchronous section *)
(* during which no UI handler can run (single UI callback queue).          *)
(***************************************************************************)
EXTENDS Integers, Sequences, FiniteSets, TLC

\* ---------------------------------------------------------------- bounds
MaxCalls == 2      \* sendMessage invocations in flight at once
MaxMsgs == 2       \* a message-appending operation starts below this length
MaxSessions == 1   \* a cursor-mode sendMessage starts below this many sessions
MaxNow == 1        \* last value of the millisecond clock
MaxTextLen == 7    \* pieces in a reply when every short text is tried
MaxParagraphs == 1 \* paragraphs of body text in a preview content
MaxDirectSessions == 2  \* a direct createCursorSession starts below this many sessions
MaxExecs == 1      \* executeCommand invocations in flight at once

\* ------------------------------------------------------------ value sets
Undefined == "undefined"
Providers == {"openai", "gemini", "claude", "custom"}
ApiKeys == {"", "sk-1"}
BaseURLs == {"https://llm"}
ChatModes == {"regular", "cursor"}
Prompts == {<<"a", "p", "p">>}
Roles == {"user", "assistant"}

\* JavaScript truthiness of a string-or-undefined value
Truthy(v) == v # "" /\ v # Undefined

\* ------------------------------------------------- text (one char a cell)
\* the backtick character (the lexer of TLA+ has no backtick inside a string)
Backtick == "<backtick>"
Tick3 == <<Backtick, Backtick, Backtick>>
IsWord(ch) == ch \in {"a", "b", "j", "s", "_", "1"}
IsSpace(ch) == ch \in {" ", "\n"}

\* String.prototype.trim
RECURSIVE TrimLeft(_)
TrimLeft(s) ==
  IF s # <<>> /\ IsSpace(Head(s)) THEN TrimLeft(Tail(s)) ELSE s

RECURSIVE TrimRight(_)
TrimRight(s) ==
  IF s # <<>> /\ IsSpace(s[Len(s)]) THEN TrimRight(SubSeq(s, 1, Len(s) - 1)) ELSE s

Trim(s) == TrimRight(TrimLeft(s))

\* does a run of three backticks start at position i of s
FenceAt(s, i) == i + 2 <= Len(s) /\ SubSeq(s, i, i + 2) = Tick3

\* end (exclusive) of the greedy \w+ run starting at position i
RECURSIVE WordEnd(_, _)
WordEnd(s, i) == IF i <= Len(s) /\ IsWord(s[i]) THEN WordEnd(s, i + 1) ELSE i

\* a search that takes the end of the input for a closing fence
RECURSIVE NextFenceOrEnd(_, _)
NextFenceOrEnd(s, i) ==
  IF i + 2 > Len(s) THEN Len(s) + 1
  ELSE IF FenceAt(s, i) THEN i ELSE NextFenceOrEnd(s, i + 1)

\* first position >= i where a closing fence starts, 0 when there is none
RECURSIVE NextFence(_, _)
NextFence(s, i) ==
  IF i + 2 > Len(s) THEN 0
  ELSE IF FenceAt(s, i) THEN i ELSE NextFence(s, i + 1)

\* one attempt of the fence pattern anchored at position i:
\* <<>> when it does not match, else <<language, body, index after the match>>
MatchAt(s, i) ==
  IF ~FenceAt(s, i) THEN <<>>
  ELSE LET w == WordEnd(s, i + 3)
       IN IF ~(w <= Len(s) /\ s[w] = "\n") THEN <<>>
          ELSE LET k == NextFence(s, w + 1)
               IN IF k = 0 THEN <<>>
                  ELSE <<SubSeq(s, i + 3, w - 1), SubSeq(s, w + 1, k - 1), k + 3>>

\* the exec() loop of extractCodeBlocks, scanning from lastIndex = i
RECURSIVE ExecFrom(_, _)
ExecFrom(s, i) ==
  IF i > Len(s) THEN <<>>
  ELSE LET m == MatchAt(s, i)
       IN IF m = <<>> THEN ExecFrom(s, i + 1)
          ELSE <<[language |-> IF m[1] = <<>> THEN <<"t", "e", "x", "t">> ELSE m[1],
                  code |-> Trim(m[2])]>> \o ExecFrom(s, m[3])

extractCodeBlocks(content) == ExecFrom(content, 1)

\* replies a provider can return
Replies == { Tick3 \o <<"j", "s", "\n", "a", "\n">> \o Tick3 }

\* what a reply is made of when every short text is tried: a fence delimiter,
\* a word character, a character that is neither word nor blank, a newline
Pieces == {Tick3, <<"j">>, <<"+">>, <<"\n">>}

RECURSIVE TextsOfLen(_)
TextsOfLen(n) ==
  IF n = 0 THEN {<<>>} ELSE {p \o t : p \in Pieces, t \in TextsOfLen(n - 1)}

\* every text of at most MaxTextLen pieces
Texts == UNION {TextsOfLen(n) : n \in 0..MaxTextLen}

\* ------------------------------------------------------------ variables
VARIABLES
  llmConfig,             \* store: provider, apiKey, model, baseURL
  messages,              \* store: the conversation
  isTyping,              \* store
  openaiClient,          \* store: "null" or the key the client was built with
  geminiClient,          \* store
  cursorSessions,        \* store
  activeCursorSession,   \* store: NoSession or a session id
  isGeneratingCommands,  \* store
  chatMode,              \* store
  isSubmitting,          \* ChatContainer
  calls,                 \* sendMessage invocations in flight, in start order
  last,                  \* history: the sendMessage invocation that settled last
  now,                   \* Date.now()
  sinceClear,            \* history: addMessage arguments since the last clearMessages
  clearRun,              \* history: clearMessages calls in a row before them (capped at 2)
  isPreviewOpen,         \* store
  previewContent,        \* store: the markup shown by CodePreview
  newWindow,             \* the window opened last by openInNewTab, or NoWindow
  adapterRun,            \* the provider adapter called last, where it stands
  execs                  \* executeCommand invocations in flight, in start order

storeVars == <<llmConfig, messages, isTyping, openaiClient, geminiClient,
               cursorSessions, activeCursorSession, isGeneratingCommands, chatMode>>
uiVars == <<isSubmitting>>
vars == <<llmConfig, messages, isTyping, openaiClient, geminiClient,
          cursorSessions, activeCursorSession, isGeneratingCommands, chatMode,
          isSubmitting, calls, last, now, sinceClear, clearRun,
          isPreviewOpen, previewContent, newWindow, adapterRun, execs>>
\* what the conversation's operations never touch
sideVars == <<isPreviewOpen, previewContent, newWindow, adapterRun, execs>>

Null == "null"
\* ids come from the clock, which never is negative
NoSession == -1

\* models of each provider in the registry
Models(p) ==
  CASE p = "openai" -> <<"gpt-4", "gpt-4-turbo", "gpt-3.5-turbo", "gpt-4o">>
    [] p = "gemini" -> <<"gemini-pro", "gemini-pro-vision", "gemini-1.5-pro">>
    [] p = "claude" -> <<"claude-3-opus-20240229", "claude-3-sonnet-20240229",
                         "claude-3-haiku-20240307">>
    [] OTHER -> <<"custom-model", "llama-2", "mistral", "other">>

\* a provider switch that always selects the first OpenAI model
FirstModelOpenAI(p) == "gpt-4"

\* first model of each provider in the registry
FirstModel(p) ==
  CASE p = "openai" -> "gpt-4"
    [] p = "gemini" -> "gemini-pro"
    [] p = "claude" -> "claude-3-opus-20240229"
    [] OTHER -> "custom-model"

\* ---------------------------------------------------------- store: config
\* { ...currentConfig, ...config }
Spread(cur, config) ==
  [k \in DOMAIN cur \cup DOMAIN config |->
     IF k \in DOMAIN config THEN config[k] ELSE cur[k]]

\* setLLMConfig that builds a client for the selected provider whatever the key
setLLMConfigAnyKey(cur, config) ==
  LET newConfig == Spread(cur, config)
  IN [llmConfig |-> newConfig,
      openaiClient |-> IF newConfig.provider = "openai" THEN newConfig.apiKey ELSE Null,
      geminiClient |-> IF newConfig.provider = "gemini" THEN newConfig.apiKey ELSE Null]

\* setLLMConfig that builds the new client and leaves the other one alone
setLLMConfigKeepClients(cur, config) ==
  LET newConfig == Spread(cur, config)
  IN [llmConfig |-> newConfig,
      openaiClient |->
        IF newConfig.provider = "openai" /\ Truthy(newConfig.apiKey)
        THEN newConfig.apiKey ELSE openaiClient,
      geminiClient |->
        IF newConfig.provider = "gemini" /\ Truthy(newConfig.apiKey)
        THEN newConfig.apiKey ELSE geminiClient]

\* the three fields setLLMConfig writes
setLLMConfig(cur, config) ==
  LET newConfig == Spread(cur, config)
  IN [llmConfig |-> newConfig,
      openaiClient |->
        IF newConfig.provider = "openai" /\ Truthy(newConfig.apiKey)
        THEN newConfig.apiKey ELSE Null,
      geminiClient |->
        IF newConfig.provider = "openai" /\ Truthy(newConfig.apiKey) THEN Null
        ELSE IF newConfig.provider = "gemini" /\ Truthy(newConfig.apiKey)
        THEN newConfig.apiKey ELSE Null]

\* -------------------------------------------------------- store: messages
\* addMessage putting the new message first
addMessagePrepend(msgs, message, t) ==
  <<[role |-> message.role, content |-> message.content,
     codeBlocks |-> message.codeBlocks, id |-> t, timestamp |-> t]>> \o msgs

\* addMessage: the message gets id and timestamp from the clock, goes last
addMessage(msgs, message, t) ==
  Append(msgs, [role |-> message.role, content |-> message.content,
                codeBlocks |-> message.codeBlocks, id |-> t, timestamp |-> t])

\* clearMessages dropping the oldest message only
clearMessagesOldest(msgs) == IF msgs = <<>> THEN <<>> ELSE Tail(msgs)

clearMessages(msgs) == <<>>

\* a message without codeBlocks has the property absent
NoBlocks == <<"undefined">>
Payload(role, content, blocks) ==
  [role |-> role, content |-> content, codeBlocks |-> blocks]
PayloadOf(m) == Payload(m.role, m.content, m.codeBlocks)
Payloads(msgs) == [i \in 1..Len(msgs) |-> PayloadOf(msgs[i])]

\* ------------------------------------------------------- cursor sessions
Chars(n) ==
  CASE n = "calculator" -> <<"c","a","l","c","u","l","a","t","o","r">>
    [] n = "todo" -> <<"t","o","d","o">>
    [] n = "portfolio" -> <<"p","o","r","t","f","o","l","i","o">>
    [] n = "landing" -> <<"l","a","n","d","i","n","g">>
    [] n = "dashboard" -> <<"d","a","s","h","b","o","a","r","d">>
    [] n = "blog" -> <<"b","l","o","g">>
    [] n = "website" -> <<"w","e","b","s","i","t","e">>
    [] OTHER -> <<"a","p","p">>

projectTypes ==
  <<"calculator", "todo", "portfolio", "landing", "dashboard", "blog", "website", "app">>

\* word.includes(type) for some word of the prompt: no type holds a blank,
\* so an occurrence anywhere in the prompt lies inside one word
Includes(s, t) ==
  \E i \in 1..(Len(s) - Len(t) + 1) : SubSeq(s, i, i + Len(t) - 1) = t

extractProjectName(prompt) ==
  LET found == {i \in 1..Len(projectTypes) : Includes(prompt, Chars(projectTypes[i]))}
  IN IF found = {} THEN "web-project"
     ELSE projectTypes[CHOOSE i \in found : \A j \in found : i <= j]

\* what the provider sent back to a command-generation request
GenReplies == {"commands", "badjson"}

Command(t, index, text) ==
  [id |-> <<t, index>>, command |-> text, status |-> "pending", output |-> Undefined]

parseCommandsFromResponse(response, t) ==
  CASE response = "commands" -> <<Command(t, 0, "mkdir app"), Command(t, 1, "cd app")>>
    [] response = "prose" ->
         <<Command(t, 0, "mkdir web-project"), Command(t, 1, "cd web-project"),
           Command(t, 2, "touch index.html style.css script.js")>>
    [] OTHER -> <<>>

\* ------------------------------------------------------ provider outcomes
Failures == {"network"}

ErrorMessage(kind, provider) ==
  CASE kind = "status" /\ provider = "claude" -> <<"Claude API error: ", "Bad Request">>
    [] kind = "status" /\ provider = "custom" -> <<"Custom API error: ", "Bad Request">>
    [] kind = "status" -> <<"400 status code (no body)">>
    [] kind = "network" -> <<"Failed to fetch">>
    [] OTHER -> <<"Cannot read properties of undefined">>

NoError == <<>>
Sorry == <<"Sorry, I could not generate a response.">>

\* the text sendMessage stores for a reply, and the code blocks it extracts
\* from it, tabulated over the replies
AssistantMessage(raw) == IF raw = <<>> THEN Sorry ELSE raw
codeBlocks == [raw \in Replies |-> extractCodeBlocks(AssistantMessage(raw))]

\* const codeBlocks = extractCodeBlocks(assistantMessage), for any reply
CodeBlocksOf(raw) ==
  IF raw \in Replies THEN codeBlocks[raw] ELSE extractCodeBlocks(AssistantMessage(raw))

\* an adapter that goes to the network whatever it is given
AdapterPrecheckNone(provider, oc, gc, cfg) == NoError

\* the check an adapter makes before it touches the network:
\* NoError when it goes on to the request
AdapterPrecheck(provider, oc, gc, cfg) ==
  CASE provider = "openai" /\ oc = Null -> <<"OpenAI client not initialized">>
    [] provider = "gemini" /\ gc = Null -> <<"Gemini client not initialized">>
    [] provider = "custom" /\ ~Truthy(cfg.baseURL) -> <<"Base URL required for custom API">>
    [] OTHER -> NoError

\* an adapter called on its own: its arguments, the requests it has issued,
\* what came back, and the text it returned or the error it threw
NoText == <<>>
NoRun ==
  [pc |-> "idle", provider |-> "openai", client |-> Null, apiKey |-> "",
   baseURL |-> Undefined, net |-> 0, outcome |-> "none", text |-> NoText,
   error |-> NoError]

\* what the network call of an adapter can come to
Outcomes == {"ok", "status", "network"}

\* what is kept of a sendMessage invocation once its promise has settled
Summary(c, pc) ==
  [pc |-> pc, chatMode |-> c.chatMode, keyed |-> c.keyed, net |-> c.net,
   appended |-> c.appended, typed |-> c.typed, failed |-> c.error # NoError]

NoCall ==
  [pc |-> "none", chatMode |-> "regular", keyed |-> FALSE, net |-> 0,
   appended |-> <<>>, typed |-> FALSE, failed |-> FALSE]

\* ------------------------------------------------- preview (CodePreview)
\* markup, one lexical piece a cell; '' is the empty sequence
DoctypeMarker == <<"<!DOCTYPE">>
HtmlMarker == <<"<html">>

RECURSIVE Paragraphs(_)
Paragraphs(n) == IF n = 0 THEN <<>> ELSE <<"<p>">> \o Paragraphs(n - 1)

\* the contents tried: each part of a document present or not, the doctype in
\* either spelling, then some body text
Contents ==
  {d \o h \o hd \o b \o Paragraphs(n) :
     d \in {<<>>, <<"<!DOCTYPE">>, <<"<!doctype">>},
     h \in {<<>>, <<"<html">>},
     hd \in {<<>>, <<"<head">>},
     b \in {<<>>, <<"<body">>},
     n \in 0..MaxParagraphs}

\* the fixed document both handlers put around a fragment
Wrapped(content) ==
  <<"<!DOCTYPE", "<html", "<head", "<meta", "<title", "<style", "</head>", "<body">>
    \o content \o <<"</body>", "</html>">>

\* a composer that wraps whatever it is given
createBlobUrlAlwaysWrapped(content) == Wrapped(content)

\* createBlobUrl: the document of the blob the iframe loads
createBlobUrl(content) ==
  IF Includes(content, DoctypeMarker) \/ Includes(content, HtmlMarker)
  THEN content
  ELSE Wrapped(content)

\* fullHtml of openInNewTab
fullHtml(content) ==
  IF Includes(content, DoctypeMarker) THEN content ELSE Wrapped(content)

\* a surface that renders a document: sandboxed or not, and the sandbox tokens
IframeSandbox == {"allow-scripts", "allow-same-origin", "allow-forms", "allow-modals"}
NoWindow == [kind |-> "none", document |-> <<>>, sandboxed |-> FALSE, allow |-> {}]

\* the iframe of the preview panel
Iframe ==
  [kind |-> "iframe", document |-> createBlobUrl(previewContent),
   sandboxed |-> TRUE, allow |-> IframeSandbox]

\* a window of window.open(), written by the host with document.write
WrittenWindow(content) ==
  [kind |-> "window", document |-> fullHtml(content), sandboxed |-> FALSE, allow |-> {}]

\* the surfaces that show preview content now
Surfaces ==
  (IF isPreviewOpen /\ previewContent # <<>> THEN {Iframe} ELSE {})
    \cup (IF newWindow # NoWindow THEN {newWindow} ELSE {})

\* ------------------------------------------------------------------ Init
InitConfig ==
  [provider |-> "openai", apiKey |-> "", model |-> "gpt-4", baseURL |-> Undefined]

Init ==
  /\ llmConfig = InitConfig
  /\ messages = <<>>
  /\ isTyping = FALSE
  /\ openaiClient = Null
  /\ geminiClient = Null
  /\ cursorSessions = <<>>
  /\ activeCursorSession = NoSession
  /\ isGeneratingCommands = FALSE
  /\ chatMode = "regular"
  /\ isSubmitting = FALSE
  /\ calls = <<>>
  /\ last = NoCall
  /\ now = 0
  /\ sinceClear = <<>>
  /\ clearRun = 0
  /\ isPreviewOpen = FALSE
  /\ previewContent = <<>>
  /\ newWindow = NoWindow
  /\ adapterRun = NoRun
  /\ execs = <<>>

\* ------------------------------------------------- the single UI queue
Suspended == {"await", "gen_await"}

\* call i is inside a synchronous section
Running(i) == calls[i].pc \notin Suspended

\* no callback is running: the next event of the queue may be taken
Idle == \A i \in DOMAIN calls : ~Running(i)

UpdateCall(i, f) == [calls EXCEPT ![i] = Spread(calls[i], f)]

\* the promise of call i settles: the awaiting handleSubmit, if any, runs its
\* finally (setIsSubmitting(false)) in the same turn of the queue
SettleCall(i, c, pc) ==
  /\ calls' = SubSeq(calls, 1, i - 1) \o SubSeq(calls, i + 1, Len(calls))
  /\ last' = Summary(c, pc)
  /\ isSubmitting' = IF c.awaited THEN FALSE ELSE isSubmitting

\* the store's addMessage, with its history record
AddToStore(payload) ==
  /\ messages' = addMessage(messages, payload, now)
  /\ sinceClear' = Append(sinceClear, payload)
  /\ UNCHANGED clearRun

\* -------------------------------------------------------- sendMessage
\* what an adapter is called with: the history, and the provider and
\* credentials of the configuration the call holds
NotHanded == [history |-> <<>>, provider |-> "none", credentials |-> Null]

\* a history without the message the call has just appended
MessagesBeforeCall(msgs) == SubSeq(msgs, 1, Len(msgs) - 1)

\* const messages = get().messages
MessagesAtDispatch(msgs) == msgs

\* the client the OpenAI and Gemini adapters use, the key the others send
Credentials(c) ==
  CASE c.llmConfig.provider = "openai" -> c.openaiClient
    [] c.llmConfig.provider = "gemini" -> c.geminiClient
    [] OTHER -> c.llmConfig.apiKey

Handed(c, msgs) ==
  [history |-> MessagesAtDispatch(msgs), provider |-> c.llmConfig.provider,
   credentials |-> Credentials(c)]

NewCall(content, awaited) ==
  [pc |-> "entry", content |-> content, llmConfig |-> llmConfig,
   openaiClient |-> openaiClient, geminiClient |-> geminiClient,
   chatMode |-> chatMode, session |-> NoSession, net |-> 0,
   appended |-> <<>>, typed |-> FALSE, error |-> NoError, awaited |-> awaited,
   keyed |-> Truthy(llmConfig.apiKey), handed |-> NotHanded]

\* sendMessage without its key check
KeyMissingNever(cfg) == FALSE

\* if (!llmConfig.apiKey)
KeyMissing(cfg) == ~Truthy(cfg.apiKey)

\* a user message that carries the blocks found in its own text
UserMessageWithBlocks(content) == Payload("user", content, extractCodeBlocks(content))

\* addMessage({ content, role: 'user' })
UserMessage(content) == Payload("user", content, NoBlocks)

\* createCursorSession: one set()
createCursorSession(projectName, description) ==
  /\ cursorSessions' = Append(cursorSessions,
       [id |-> now, projectName |-> projectName, description |-> description,
        commands |-> <<>>, isActive |-> TRUE])
  /\ activeCursorSession' = now

\* sendMessage up to its first set(): the key check, then the cursor branch
\* (createCursorSession) or the user message; caller says who awaits it
sendMessage(content, awaited) ==
  IF KeyMissing(llmConfig)
  THEN /\ last' = Summary(Spread(NewCall(content, awaited),
                    [error |-> <<"API key not set">>]), "thrown")
       /\ UNCHANGED <<storeVars, calls, now, sideVars, sinceClear, clearRun>>
  ELSE IF chatMode = "cursor"
  THEN /\ Len(calls) < MaxCalls
       /\ Len(cursorSessions) < MaxSessions
       /\ createCursorSession(extractProjectName(content), content)
       /\ calls' = Append(calls, Spread(NewCall(content, awaited), [pc |-> "gen"]))
       /\ UNCHANGED <<llmConfig, messages, isTyping, openaiClient, geminiClient,
                      isGeneratingCommands, chatMode, last, now, sideVars, sinceClear, clearRun>>
  ELSE /\ Len(calls) < MaxCalls
       /\ Len(messages) < MaxMsgs
       /\ AddToStore(UserMessage(content))
       /\ calls' = Append(calls, Spread(NewCall(content, awaited),
                     [pc |-> "typing", appended |-> <<"user">>]))
       /\ UNCHANGED <<llmConfig, isTyping, openaiClient, geminiClient, cursorSessions,
                      activeCursorSession, isGeneratingCommands, chatMode, last, now, sideVars>>

\* a sendMessage that never raises the flag
SetTypingNever(i) ==
  /\ calls[i].pc = "typing"
  /\ LET c == calls[i]
         e == AdapterPrecheck(c.llmConfig.provider, c.openaiClient, c.geminiClient, c.llmConfig)
     IN calls' = IF e # NoError
                 THEN UpdateCall(i, [pc |-> "catch", typed |-> TRUE, error |-> e,
                                     handed |-> Handed(c, messages)])
                 ELSE UpdateCall(i, [pc |-> "await", typed |-> TRUE, net |-> c.net + 1,
                                     handed |-> Handed(c, messages)])
  /\ UNCHANGED <<storeVars, isSubmitting, last, now, sideVars, sinceClear, clearRun>>

\* setIsTyping(true), then the switch on the provider: the adapter either
\* throws before the request or issues it
SetTyping(i) ==
  /\ calls[i].pc = "typing"
  /\ isTyping' = TRUE
  /\ LET c == calls[i]
         e == AdapterPrecheck(c.llmConfig.provider, c.openaiClient, c.geminiClient, c.llmConfig)
     IN calls' = IF e # NoError
                 THEN UpdateCall(i, [pc |-> "catch", typed |-> TRUE, error |-> e,
                                     handed |-> Handed(c, messages)])
                 ELSE UpdateCall(i, [pc |-> "await", typed |-> TRUE, net |-> c.net + 1,
                                     handed |-> Handed(c, messages)])
  /\ UNCHANGED <<llmConfig, messages, openaiClient, geminiClient, cursorSessions,
                 activeCursorSession, isGeneratingCommands, chatMode,
                 isSubmitting, last, now, sideVars, sinceClear, clearRun>>

\* a reply that is never added to the conversation
ProviderReplyDropped(i, raw) ==
  /\ calls[i].pc = "await"
  /\ Idle
  /\ calls' = UpdateCall(i, [pc |-> "finally"])
  /\ UNCHANGED <<storeVars, uiVars, last, now, sideVars, sinceClear, clearRun>>

\* a reply without a code block treated as a failure
ProviderReplyStrict(i, raw) ==
  /\ calls[i].pc = "await"
  /\ Idle
  /\ IF CodeBlocksOf(raw) = <<>>
     THEN /\ calls' = UpdateCall(i, [pc |-> "catch", error |-> <<"No code block found">>])
          /\ UNCHANGED <<messages, sinceClear, clearRun>>
     ELSE /\ AddToStore(Payload("assistant", AssistantMessage(raw), CodeBlocksOf(raw)))
          /\ calls' = UpdateCall(i, [pc |-> "finally",
                         appended |-> Append(calls[i].appended, "assistant")])
  /\ UNCHANGED <<llmConfig, isTyping, openaiClient, geminiClient, cursorSessions,
                 activeCursorSession, isGeneratingCommands, chatMode,
                 isSubmitting, last, now, sideVars>>

\* the request resolves with a reply: extractCodeBlocks, addMessage
ProviderReply(i, raw) ==
  /\ calls[i].pc = "await"
  /\ Idle
  /\ AddToStore(Payload("assistant", AssistantMessage(raw), CodeBlocksOf(raw)))
  /\ calls' = UpdateCall(i, [pc |-> "finally", appended |-> Append(calls[i].appended, "assistant")])
  /\ UNCHANGED <<llmConfig, isTyping, openaiClient, geminiClient, cursorSessions,
                 activeCursorSession, isGeneratingCommands, chatMode,
                 isSubmitting, last, now, sideVars>>

\* an adapter that sends the request again when it fails
ProviderFailRetry(i, kind) ==
  /\ calls[i].pc = "await"
  /\ Idle
  /\ calls[i].net < 2
  /\ calls' = UpdateCall(i, [net |-> calls[i].net + 1])
  /\ UNCHANGED <<storeVars, uiVars, last, now, sideVars, sinceClear, clearRun>>

\* the request fails: control reaches the catch block
ProviderFail(i, kind) ==
  /\ calls[i].pc = "await"
  /\ Idle
  /\ calls' = UpdateCall(i, [pc |-> "catch",
                error |-> ErrorMessage(kind, calls[i].llmConfig.provider)])
  /\ UNCHANGED <<storeVars, uiVars, last, now, sideVars, sinceClear, clearRun>>

\* a catch block that swallows the error
CatchSilent(i) ==
  /\ calls[i].pc = "catch"
  /\ calls' = UpdateCall(i, [pc |-> "finally"])
  /\ UNCHANGED <<storeVars, uiVars, last, now, sideVars, sinceClear, clearRun>>

\* catch: addMessage of the error text
Catch(i) ==
  /\ calls[i].pc = "catch"
  /\ AddToStore(Payload("assistant", <<"Error: ">> \o calls[i].error, NoBlocks))
  /\ calls' = UpdateCall(i, [pc |-> "finally", appended |-> Append(calls[i].appended, "assistant")])
  /\ UNCHANGED <<llmConfig, isTyping, openaiClient, geminiClient, cursorSessions,
                 activeCursorSession, isGeneratingCommands, chatMode,
                 isSubmitting, last, now, sideVars>>

\* sendMessage without its finally block
FinallyKeepTyping(i) ==
  /\ calls[i].pc = "finally"
  /\ SettleCall(i, calls[i], "done")
  /\ UNCHANGED <<storeVars, now, sideVars, sinceClear, clearRun>>

\* finally: setIsTyping(false); the promise resolves
Finally(i) ==
  /\ calls[i].pc = "finally"
  /\ isTyping' = FALSE
  /\ SettleCall(i, calls[i], "done")
  /\ UNCHANGED <<llmConfig, messages, openaiClient, geminiClient, cursorSessions,
                 activeCursorSession, isGeneratingCommands, chatMode,
                 now, sideVars, sinceClear, clearRun>>

\* ---------------------------------------------------- generateCommands
\* entry of generateCommands: precondition, set({isGeneratingCommands: true}),
\* then the adapter throws before the request or issues it
GenerateCommands(i) ==
  /\ calls[i].pc = "gen"
  /\ IF ~Truthy(llmConfig.apiKey) \/ activeCursorSession = NoSession
     THEN /\ SettleCall(i, Spread(calls[i],
                [error |-> <<"API key or active session not set">>]), "thrown")
          /\ UNCHANGED isGeneratingCommands
     ELSE /\ isGeneratingCommands' = TRUE
          /\ LET e == AdapterPrecheck(llmConfig.provider, openaiClient, geminiClient, llmConfig)
             IN calls' = IF e # NoError
                         THEN UpdateCall(i, [pc |-> "gen_finally", error |-> e,
                                             session |-> activeCursorSession])
                         ELSE UpdateCall(i, [pc |-> "gen_await", net |-> calls[i].net + 1,
                                             session |-> activeCursorSession])
          /\ UNCHANGED <<isSubmitting, last>>
  /\ UNCHANGED <<llmConfig, messages, isTyping, openaiClient, geminiClient, cursorSessions,
                 activeCursorSession, chatMode, now, sideVars, sinceClear, clearRun>>

\* a generation that also puts the response into the conversation
GenReplyAsMessage(i, response) ==
  /\ calls[i].pc = "gen_await"
  /\ Idle
  /\ LET commands == parseCommandsFromResponse(response, now)
     IN cursorSessions' =
          [k \in 1..Len(cursorSessions) |->
             IF cursorSessions[k].id = calls[i].session
             THEN [cursorSessions[k] EXCEPT !.commands = commands]
             ELSE cursorSessions[k]]
  /\ AddToStore(Payload("assistant", <<response>>, NoBlocks))
  /\ calls' = UpdateCall(i, [pc |-> "gen_finally"])
  /\ UNCHANGED <<llmConfig, isTyping, openaiClient, geminiClient,
                 activeCursorSession, isGeneratingCommands, chatMode,
                 isSubmitting, last, now, sideVars>>

\* the request resolves: the commands go to the session that was active
GenReply(i, response) ==
  /\ calls[i].pc = "gen_await"
  /\ Idle
  /\ LET commands == parseCommandsFromResponse(response, now)
     IN cursorSessions' =
          [k \in 1..Len(cursorSessions) |->
             IF cursorSessions[k].id = calls[i].session
             THEN [cursorSessions[k] EXCEPT !.commands = commands]
             ELSE cursorSessions[k]]
  /\ calls' = UpdateCall(i, [pc |-> "gen_finally"])
  /\ UNCHANGED <<llmConfig, messages, isTyping, openaiClient, geminiClient,
                 activeCursorSession, isGeneratingCommands, chatMode,
                 isSubmitting, last, now, sideVars, sinceClear, clearRun>>

\* the request fails: catch logs and rethrows
GenFail(i, kind) ==
  /\ calls[i].pc = "gen_await"
  /\ Idle
  /\ calls' = UpdateCall(i, [pc |-> "gen_finally",
                error |-> ErrorMessage(kind, calls[i].llmConfig.provider)])
  /\ UNCHANGED <<storeVars, uiVars, last, now, sideVars, sinceClear, clearRun>>

\* a generateCommands without its finally block
GenFinallyKeepFlag(i) ==
  /\ calls[i].pc = "gen_finally"
  /\ SettleCall(i, calls[i], IF calls[i].error = NoError THEN "done" ELSE "thrown")
  /\ UNCHANGED <<storeVars, now, sideVars, sinceClear, clearRun>>

\* finally: set({isGeneratingCommands: false}); a rethrown error leaves
\* sendMessage through its caller
GenFinally(i) ==
  /\ calls[i].pc = "gen_finally"
  /\ isGeneratingCommands' = FALSE
  /\ SettleCall(i, calls[i], IF calls[i].error = NoError THEN "done" ELSE "thrown")
  /\ UNCHANGED <<llmConfig, messages, isTyping, openaiClient, geminiClient, cursorSessions,
                 activeCursorSession, chatMode, now, sideVars, sinceClear, clearRun>>

\* ------------------------------------------------------- ChatContainer
\* a validity check that looks at the key only
isConfigValidKeyOnly(cfg) == Truthy(cfg.apiKey)

isConfigValid(cfg) ==
  Truthy(cfg.apiKey) /\ (cfg.provider # "custom" \/ Truthy(cfg.baseURL))

\* a textarea disabled on a configuration error only
TextareaDisabledIgnoringSubmit == ~isConfigValid(llmConfig)

\* disabled attribute of the textarea (Enter reaches handleSubmit through it)
TextareaDisabled == isSubmitting \/ ~isConfigValid(llmConfig)

\* disabled attribute of the send button, the textarea holding text
ButtonDisabled(text) == Trim(text) = <<>> \/ isSubmitting \/ ~isConfigValid(llmConfig)

\* what the textarea can hold when the user submits
Inputs == {<<" ">>, <<" ", "a", "p", "p">>}

\* handleSubmit up to its await of sendMessage, the textarea holding text;
\* its two early returns change no state (the second shows a toast)
HandleSubmit(text) ==
  /\ Idle
  /\ ~TextareaDisabled \/ ~ButtonDisabled(text)
  /\ IF Trim(text) = <<>> \/ KeyMissing(llmConfig)
     THEN UNCHANGED vars
     ELSE /\ isSubmitting' = TRUE
          /\ sendMessage(Trim(text), TRUE)

\* handleModeChange
HandleModeChange(mode) ==
  /\ Idle
  /\ chatMode # mode
  /\ chatMode' = mode
  /\ UNCHANGED <<llmConfig, messages, isTyping, openaiClient, geminiClient, cursorSessions,
                 activeCursorSession, isGeneratingCommands, uiVars, calls, last, now, sideVars,
                 sinceClear, clearRun>>

\* ---------------------------------------------------------------- Header
ClearStore ==
  /\ messages' = clearMessages(messages)
  /\ sinceClear' = <<>>
  /\ clearRun' = IF sinceClear # <<>> THEN 1 ELSE IF clearRun < 2 THEN clearRun + 1 ELSE 2

HandleClearChat ==
  /\ Idle
  /\ ClearStore
  /\ UNCHANGED <<llmConfig, isTyping, openaiClient, geminiClient, cursorSessions,
                 activeCursorSession, isGeneratingCommands, chatMode,
                 isSubmitting, calls, last, now, sideVars>>

WriteConfig(r) ==
  /\ llmConfig' = r.llmConfig
  /\ openaiClient' = r.openaiClient
  /\ geminiClient' = r.geminiClient

\* onConfigChange as the Header wires it: setLLMConfig({...llmConfig, ...updates})
onConfigChange(cur, rendered, updates) == setLLMConfig(cur, Spread(rendered, updates))

\* handleProviderChange: onProviderChange, then onConfigChange with the first
\* model of the provider; both spread the configuration of the last render
HandleProviderChange(providerId) ==
  /\ Idle
  /\ LET first == onConfigChange(llmConfig, llmConfig, [provider |-> providerId])
         second == onConfigChange(first.llmConfig, llmConfig,
                     [provider |-> providerId, model |-> FirstModel(providerId),
                      baseURL |-> IF providerId = "custom" THEN llmConfig.baseURL
                                  ELSE Undefined])
     IN /\ second.llmConfig # llmConfig
        /\ WriteConfig(second)
  /\ UNCHANGED <<messages, isTyping, cursorSessions, activeCursorSession,
                 isGeneratingCommands, chatMode, uiVars, calls, last, now, sideVars,
                 sinceClear, clearRun>>

\* the API key field
HandleApiKeyChange(key) ==
  /\ Idle
  /\ key # llmConfig.apiKey
  /\ WriteConfig(onConfigChange(llmConfig, llmConfig, [apiKey |-> key]))
  /\ UNCHANGED <<messages, isTyping, cursorSessions, activeCursorSession,
                 isGeneratingCommands, chatMode, uiVars, calls, last, now, sideVars,
                 sinceClear, clearRun>>

\* the base URL field, shown for the custom provider
HandleBaseURLChange(url) ==
  /\ Idle
  /\ llmConfig.provider = "custom"
  /\ url # llmConfig.baseURL
  /\ WriteConfig(onConfigChange(llmConfig, llmConfig, [baseURL |-> url]))
  /\ UNCHANGED <<messages, isTyping, cursorSessions, activeCursorSession,
                 isGeneratingCommands, chatMode, uiVars, calls, last, now, sideVars,
                 sinceClear, clearRun>>

\* the model select: its options are the models of the selected provider
HandleModelChange(model) ==
  /\ Idle
  /\ \E k \in DOMAIN Models(llmConfig.provider) : Models(llmConfig.provider)[k] = model
  /\ model # llmConfig.model
  /\ WriteConfig(onConfigChange(llmConfig, llmConfig, [model |-> model]))
  /\ UNCHANGED <<messages, isTyping, cursorSessions, activeCursorSession,
                 isGeneratingCommands, chatMode, uiVars, calls, last, now, sideVars,
                 sinceClear, clearRun>>

\* what is typed into the custom model name field
ModelNames == {"", "llama-2-70b", "mixtral-8x7b"}

\* the custom model name field, shown for the custom provider
HandleCustomModelChange(name) ==
  /\ Idle
  /\ llmConfig.provider = "custom"
  /\ LET model == IF name = "" THEN "custom-model" ELSE name
     IN /\ model # llmConfig.model
        /\ WriteConfig(onConfigChange(llmConfig, llmConfig, [model |-> model]))
  /\ UNCHANGED <<messages, isTyping, cursorSessions, activeCursorSession,
                 isGeneratingCommands, chatMode, uiVars, calls, last, now, sideVars,
                 sinceClear, clearRun>>

\* ------------------------------------------------------------- the clock
Tick ==
  /\ now < MaxNow
  /\ now' = now + 1
  /\ UNCHANGED <<storeVars, uiVars, calls, last, sinceClear, clearRun, sideVars>>

\* --------------------------------------------- the store called directly
DirectPayloads == {Payload("assistant", <<"h", "i">>, NoBlocks)}

AddMessage(payload) ==
  /\ Idle
  /\ Len(messages) < MaxMsgs
  /\ AddToStore(payload)
  /\ UNCHANGED <<llmConfig, isTyping, openaiClient, geminiClient, cursorSessions,
                 activeCursorSession, isGeneratingCommands, chatMode, uiVars, calls,
                 last, now, sideVars>>

ClearMessages ==
  /\ Idle
  /\ ClearStore
  /\ UNCHANGED <<llmConfig, isTyping, openaiClient, geminiClient, cursorSessions,
                 activeCursorSession, isGeneratingCommands, chatMode, uiVars, calls,
                 last, now, sideVars>>

SendMessage(content) ==
  /\ calls = <<>>
  /\ sendMessage(content, FALSE)
  /\ UNCHANGED uiVars

Partials ==
  {[apiKey |-> key] : key \in ApiKeys}
    \cup {[provider |-> p, baseURL |-> Undefined] : p \in Providers}
    \cup {[provider |-> "custom", baseURL |-> url] : url \in BaseURLs}

SetLLMConfig(config) ==
  /\ Idle
  /\ setLLMConfig(llmConfig, config).llmConfig # llmConfig
  /\ WriteConfig(setLLMConfig(llmConfig, config))
  /\ UNCHANGED <<messages, isTyping, cursorSessions, activeCursorSession,
                 isGeneratingCommands, chatMode, uiVars, calls, last, now, sideVars,
                 sinceClear, clearRun>>

SetChatMode(mode) ==
  /\ Idle
  /\ chatMode # mode
  /\ chatMode' = mode
  /\ UNCHANGED <<llmConfig, messages, isTyping, openaiClient, geminiClient, cursorSessions,
                 activeCursorSession, isGeneratingCommands, uiVars, calls, last, now, sideVars,
                 sinceClear, clearRun>>

\* setActiveCursorSession: null, or the id of a session
SetActiveCursorSession(sessionId) ==
  /\ Idle
  /\ sessionId # activeCursorSession
  /\ activeCursorSession' = sessionId
  /\ UNCHANGED <<llmConfig, messages, isTyping, openaiClient, geminiClient, cursorSessions,
                 isGeneratingCommands, chatMode, uiVars, calls, last, now, sideVars,
                 sinceClear, clearRun>>

ClearCursorSessions ==
  /\ Idle
  /\ cursorSessions # <<>>
  /\ cursorSessions' = <<>>
  /\ activeCursorSession' = NoSession
  /\ UNCHANGED <<llmConfig, messages, isTyping, openaiClient, geminiClient,
                 isGeneratingCommands, chatMode, uiVars, calls, last, now, sideVars,
                 sinceClear, clearRun>>

\* ------------------------------------- the cursor operations called directly
\* what the cursor operations never touch
nonCursorVars ==
  <<llmConfig, messages, isTyping, openaiClient, geminiClient, chatMode, uiVars,
    last, now, sinceClear, clearRun, isPreviewOpen, previewContent, newWindow, adapterRun>>

CreateCursorSession(projectName, description) ==
  /\ Idle
  /\ Len(cursorSessions) < MaxDirectSessions
  /\ createCursorSession(projectName, description)
  /\ UNCHANGED <<nonCursorVars, isGeneratingCommands, calls, execs>>

\* generateCommands called on its own: its first statement runs in the next
\* step (GenerateCommands)
CallGenerateCommands(description) ==
  /\ Idle
  /\ Len(calls) < MaxCalls
  /\ calls' = Append(calls, Spread(NewCall(description, FALSE), [pc |-> "gen"]))
  /\ UNCHANGED <<nonCursorVars, cursorSessions, activeCursorSession,
                 isGeneratingCommands, execs>>

\* the three updates executeCommand makes to a command
Executing(cmd) == [cmd EXCEPT !.status = "executing"]
\* `Command executed: ${command.command}`
ExecutedOutput(text) ==
  CASE text = "mkdir app" -> "Command executed: mkdir app"
    [] text = "cd app" -> "Command executed: cd app"
    [] text = "mkdir web-project" -> "Command executed: mkdir web-project"
    [] text = "cd web-project" -> "Command executed: cd web-project"
    [] OTHER -> "Command executed: touch index.html style.css script.js"
Completed(cmd) == [cmd EXCEPT !.status = "completed", !.output = ExecutedOutput(cmd.command)]
Errored(cmd) == [cmd EXCEPT !.status = "error", !.output = "Error: Command not found"]

\* the two nested maps of executeCommand: every command with the id, in every
\* session with the id, is updated
Updated(cmd, status) ==
  CASE status = "executing" -> Executing(cmd)
    [] status = "completed" -> Completed(cmd)
    [] OTHER -> Errored(cmd)

WithCommand(sessions, sessionId, commandId, status) ==
  [k \in 1..Len(sessions) |->
     IF sessions[k].id = sessionId
     THEN [sessions[k] EXCEPT !.commands =
             [c \in 1..Len(sessions[k].commands) |->
                IF sessions[k].commands[c].id = commandId
                THEN Updated(sessions[k].commands[c], status)
                ELSE sessions[k].commands[c]]]
     ELSE sessions[k]]

\* get().cursorSessions.find(...) then session?.commands.find(...): is there
\* a command with the id in the first session with the id
CommandFound(sessions, sessionId, commandId) ==
  LET ks == {k \in 1..Len(sessions) : sessions[k].id = sessionId}
  IN /\ ks # {}
     /\ LET k == CHOOSE x \in ks : \A y \in ks : x <= y
        IN \E c \in 1..Len(sessions[k].commands) : sessions[k].commands[c].id = commandId

\* executeCommand up to its await: the command is marked as executing
ExecuteCommand(sessionId, commandId) ==
  /\ Idle
  /\ Len(execs) < MaxExecs
  /\ cursorSessions' = WithCommand(cursorSessions, sessionId, commandId, "executing")
  /\ execs' = Append(execs, [sessionId |-> sessionId, commandId |-> commandId])
  /\ UNCHANGED <<nonCursorVars, activeCursorSession, isGeneratingCommands, calls>>

\* the timer of the oldest executeCommand fires (all timers run one second):
\* the command is completed, or the call throws and its catch marks the error
ExecuteDone ==
  /\ execs # <<>>
  /\ Idle
  /\ LET e == Head(execs)
     IN cursorSessions' =
          IF CommandFound(cursorSessions, e.sessionId, e.commandId)
          THEN WithCommand(cursorSessions, e.sessionId, e.commandId, "completed")
          ELSE WithCommand(cursorSessions, e.sessionId, e.commandId, "error")
  /\ execs' = Tail(execs)
  /\ UNCHANGED <<nonCursorVars, activeCursorSession, isGeneratingCommands, calls>>

\* ------------------------------------------------------- specifications
Regular(i) ==
  \/ SetTyping(i)
  \/ \E raw \in Replies : ProviderReply(i, raw)
  \/ \E kind \in Failures : ProviderFail(i, kind)
  \/ Catch(i)
  \/ Finally(i)

Cursor(i) ==
  \/ GenerateCommands(i)
  \/ \E response \in GenReplies : GenReply(i, response)
  \/ \E kind \in Failures : GenFail(i, kind)
  \/ GenFinally(i)

\* ------------------------------------------------------------ the preview
chatVars == <<storeVars, uiVars, calls, last, now, sinceClear, clearRun, execs>>

SetPreviewOpen(open) ==
  /\ isPreviewOpen' = open
  /\ UNCHANGED <<chatVars, previewContent, newWindow, adapterRun>>

SetPreviewContent(content) ==
  /\ previewContent' = content
  /\ UNCHANGED <<chatVars, isPreviewOpen, newWindow, adapterRun>>

\* the button of the open panel; window.open() gives no window when the
\* browser blocks it
OpenInNewTab ==
  /\ isPreviewOpen
  /\ previewContent # <<>>
  /\ \E opened \in BOOLEAN :
       newWindow' = IF opened THEN WrittenWindow(previewContent) ELSE newWindow
  /\ UNCHANGED <<chatVars, isPreviewOpen, previewContent, adapterRun>>

\* --------------------------------------------------- an adapter on its own
\* sendToOpenAI / sendToGemini / sendToClaude / sendToCustomAPI up to the
\* request: the adapter throws, or the request is under way
CallAdapter(provider, client, apiKey, baseURL) ==
  /\ adapterRun.pc # "request"
  /\ LET cfg == [provider |-> provider, apiKey |-> apiKey, baseURL |-> baseURL]
         e == AdapterPrecheck(provider, client, client, cfg)
         run == [NoRun EXCEPT !.provider = provider, !.client = client,
                              !.apiKey = apiKey, !.baseURL = baseURL]
     IN adapterRun' = IF e # NoError
                      THEN [run EXCEPT !.pc = "thrown", !.error = e]
                      ELSE [run EXCEPT !.pc = "request", !.net = 1]
  /\ UNCHANGED <<chatVars, isPreviewOpen, previewContent, newWindow>>

\* the request comes back: a reply is returned, anything else is thrown
\* (!response.ok in the fetch adapters, the SDK's error in the others)
AdapterResponse(outcome, raw) ==
  /\ adapterRun.pc = "request"
  /\ adapterRun' =
       IF outcome = "ok"
       THEN [adapterRun EXCEPT !.pc = "returned", !.outcome = outcome,
                               !.text = AssistantMessage(raw)]
       ELSE [adapterRun EXCEPT !.pc = "thrown", !.outcome = outcome,
                               !.error = ErrorMessage(outcome, adapterRun.provider)]
  /\ UNCHANGED <<chatVars, isPreviewOpen, previewContent, newWindow>>

\* the application: the handlers of ChatContainer and Header drive the store
Next ==
  \/ \E text \in Inputs : HandleSubmit(text)
  \/ \E mode \in ChatModes : HandleModeChange(mode)
  \/ HandleClearChat
  \/ \E p \in Providers : HandleProviderChange(p)
  \/ \E key \in ApiKeys : HandleApiKeyChange(key)
  \/ \E url \in BaseURLs : HandleBaseURLChange(url)
  \/ \E i \in DOMAIN calls : Regular(i)
  \/ \E i \in DOMAIN calls : Cursor(i)
  \/ Tick

Spec == Init /\ [][Next]_vars

\* the store alone: a caller that uses its operations in any order, awaits one
\* sendMessage before it starts the next, and does so within one tick of the
\* clock (no formula checked under StoreSpec reads an id)
StoreNext ==
  \/ \E payload \in DirectPayloads : AddMessage(payload)
  \/ ClearMessages
  \/ \E content \in Prompts : SendMessage(content)
  \/ \E config \in Partials : SetLLMConfig(config)
  \/ \E mode \in ChatModes : SetChatMode(mode)
  \/ \E sessionId \in {NoSession} \cup {cursorSessions[k].id : k \in DOMAIN cursorSessions} :
       SetActiveCursorSession(sessionId)
  \/ ClearCursorSessions
  \/ \E i \in DOMAIN calls : Regular(i)
  \/ \E i \in DOMAIN calls : Cursor(i)

StoreSpec == Init /\ [][StoreNext]_vars

\* the store answering one prompt, the provider's reply being any short text
ExtractNext ==
  \/ \E key \in ApiKeys : SetLLMConfig([apiKey |-> key])
  \/ \E content \in Prompts : SendMessage(content)
  \/ \E i \in DOMAIN calls : Regular(i)
  \/ \E i \in DOMAIN calls :
       calls[i].pc = "await" /\ \E raw \in Texts : ProviderReply(i, raw)

ExtractSpec == Init /\ [][ExtractNext]_vars

\* the preview panel: any content is set, the panel opened and closed, the
\* content opened in a new tab
PreviewNext ==
  \/ \E open \in BOOLEAN : SetPreviewOpen(open)
  \/ \E content \in Contents : SetPreviewContent(content)
  \/ OpenInNewTab

PreviewSpec == Init /\ [][PreviewNext]_vars

\* the adapters called with any client, key and base URL
AdapterNext ==
  \/ \E provider \in Providers, client \in {Null} \cup (ApiKeys \ {""}),
        apiKey \in ApiKeys, baseURL \in {Undefined} \cup BaseURLs :
       CallAdapter(provider, client, apiKey, baseURL)
  \/ \E outcome \in Outcomes, raw \in Replies \cup {<<>>} : AdapterResponse(outcome, raw)

AdapterSpec == Init /\ [][AdapterNext]_vars

\* the cursor operations of the store called in any order, generateCommands
\* and executeCommand overlapping with each other and with the rest
SessionIds == {NoSession} \cup {cursorSessions[k].id : k \in DOMAIN cursorSessions}
CommandIds ==
  {<<NoSession, 0>>} \cup
    UNION {{cursorSessions[k].commands[c].id : c \in DOMAIN cursorSessions[k].commands} :
             k \in DOMAIN cursorSessions}

CursorNext ==
  \/ \E key \in ApiKeys : SetLLMConfig([apiKey |-> key])
  \/ \E description \in Prompts : CreateCursorSession("app", description)
  \/ \E description \in Prompts : CallGenerateCommands(description)
  \/ \E sessionId \in SessionIds : SetActiveCursorSession(sessionId)
  \/ ClearCursorSessions
  \/ \E i \in DOMAIN calls : Cursor(i)
  \/ \E sessionId \in SessionIds, commandId \in CommandIds :
       ExecuteCommand(sessionId, commandId)
  \/ ExecuteDone
  \/ Tick

CursorSpec == Init /\ [][CursorNext]_vars

\* the configuration panel of the Header, with the mode selector beside it
AllModels == UNION {{Models(p)[k] : k \in DOMAIN Models(p)} : p \in Providers}

ConfigNext ==
  \/ \E p \in Providers : HandleProviderChange(p)
  \/ \E key \in ApiKeys : HandleApiKeyChange(key)
  \/ \E url \in BaseURLs \cup {""} : HandleBaseURLChange(url)
  \/ \E model \in AllModels : HandleModelChange(model)
  \/ \E name \in ModelNames : HandleCustomModelChange(name)
  \/ \E mode \in ChatModes : HandleModeChange(mode)

ConfigSpec == Init /\ [][ConfigNext]_vars

\* the same application, its callbacks run when they are due and every
\* provider request comes back
FairSpec ==
  /\ Spec
  /\ WF_vars(\E i \in DOMAIN calls : Regular(i))
  /\ WF_vars(\E i \in DOMAIN calls : Cursor(i))

\* ================================================================ claims
LastMessage == messages[Len(messages)]

\* C1: in every step the conversation is left alone, grows by one message at
\* its end with all earlier messages as they were, or becomes empty
C1_AppendOrClear ==
  [][\/ messages' = messages
     \/ /\ Len(messages') = Len(messages) + 1
        /\ SubSeq(messages', 1, Len(messages)) = messages
     \/ messages' = <<>>]_vars

\* a conversation that was cleared and then grew behind a direct addMessage
C1_Witness ==
  /\ clearRun >= 1
  /\ Len(messages) >= 3
  /\ last.pc = "done"

\* C2: after clearMessages the conversation holds exactly the arguments of the
\* addMessage calls made since, in call order; a clearMessages that follows a
\* clearMessages changes nothing in the store
C2_ClearThenAppend ==
  /\ [](Payloads(messages) = sinceClear)
  /\ [][(ClearMessages /\ clearRun >= 1 /\ sinceClear = <<>>) => UNCHANGED storeVars]_vars

\* two clearMessages in a row, then two addMessage calls
C2_Witness ==
  /\ clearRun = 2
  /\ Len(sinceClear) >= 2

\* C3 as stated: every sendMessage that failed ended normally and left an
\* assistant message
C3_EveryFailureBecomesMessage ==
  last.failed =>
    /\ last.pc = "done"
    /\ last.appended # <<>>
    /\ last.appended[Len(last.appended)] = "assistant"

\* C3 amended: in regular mode a failure after the key check is caught and
\* becomes an assistant message "Error: ..." and the call ends normally; a
\* missing key and a failure in cursor mode are thrown, no message appended
C3_CaughtAfterKeyCheck ==
  /\ (last.failed /\ last.keyed /\ last.chatMode = "regular") =>
       (last.pc = "done" /\ last.appended = <<"user", "assistant">>)
  /\ \A i \in DOMAIN calls :
       (calls[i].pc = "finally" /\ calls[i].error # NoError) =>
         /\ messages # <<>>
         /\ LastMessage.role = "assistant"
         /\ LastMessage.content = <<"Error: ">> \o calls[i].error
  /\ (last.failed /\ (~last.keyed \/ last.chatMode = "cursor")) =>
       (last.pc = "thrown" /\ last.appended = <<>>)

\* a failure has been caught and its message added
C3_Witness ==
  \E i \in DOMAIN calls : calls[i].pc = "finally" /\ calls[i].error # NoError

\* C4: a regular-mode sendMessage past the key check adds the user message
\* with the submitted content first and one assistant message later, two in
\* all; with no call in flight every user message has an assistant message
\* right behind it
C4_UserThenOneAssistant ==
  /\ (last.pc # "none" /\ last.chatMode = "regular" /\ last.keyed) =>
       (last.pc = "done" /\ last.appended = <<"user", "assistant">>)
  /\ \A i \in DOMAIN calls :
       calls[i].chatMode = "regular" =>
         /\ calls[i].pc \in {"typing", "await", "catch"} => calls[i].appended = <<"user">>
         /\ calls[i].pc = "finally" => calls[i].appended = <<"user", "assistant">>
         /\ calls[i].pc = "typing" =>
              (LastMessage.role = "user" /\ LastMessage.content = calls[i].content)
  /\ calls = <<>> =>
       \A k \in 1..Len(messages) :
         messages[k].role = "user" =>
           (k < Len(messages) /\ messages[k + 1].role = "assistant")

\* a call whose request failed has settled with its two messages in the store
C4_Witness ==
  /\ calls = <<>>
  /\ last.pc = "done"
  /\ last.failed
  /\ Len(messages) >= 2

\* C5: the step in which a sendMessage that set isTyping settles leaves
\* isTyping false; when callbacks run and provider requests come back,
\* isTyping true leads to isTyping false
C5_TypingCleared ==
  /\ [][(Len(calls') < Len(calls) /\ last'.typed) => ~isTyping']_vars
  /\ (isTyping ~> ~isTyping)

\* a call that had set isTyping and whose request failed has settled
C5_Witness ==
  /\ calls = <<>>
  /\ last.typed
  /\ last.failed
  /\ ~isTyping

\* C6: a sendMessage called with an empty key, in either mode, is thrown back
\* with no provider request issued, and never gets in flight
C6_NoKeyNoRequest ==
  /\ (last.pc # "none" /\ ~last.keyed) =>
       (last.pc = "thrown" /\ last.failed /\ last.net = 0)
  /\ \A i \in DOMAIN calls : calls[i].keyed

\* sendMessage was called in cursor mode with an empty key
C6_Witness ==
  /\ last.pc = "thrown"
  /\ ~last.keyed
  /\ last.chatMode = "cursor"

\* C7: no step taken while the configuration is in error (no key, or custom
\* without base URL) starts a send, adds a user message, raises isTyping or
\* issues a provider request
C7_ConfigErrorBlocksSend ==
  [][(\/ ~Truthy(llmConfig.apiKey)
      \/ llmConfig.provider = "custom" /\ ~Truthy(llmConfig.baseURL)) =>
       /\ Len(calls') <= Len(calls)
       /\ (messages' # messages /\ messages' # <<>>) =>
            messages'[Len(messages')].role # "user"
       /\ isTyping' => isTyping
       /\ Len(calls') = Len(calls) =>
            \A i \in DOMAIN calls : calls'[i].net = calls[i].net]_vars

\* the custom provider has a key and no base URL, nothing is in flight and the
\* send affordance is disabled for a prompt
C7_Witness ==
  /\ llmConfig.provider = "custom"
  /\ Truthy(llmConfig.apiKey)
  /\ ~isConfigValid(llmConfig)
  /\ calls = <<>>
  /\ ~isSubmitting
  /\ last.pc = "done"
  /\ TextareaDisabled
  /\ ButtonDisabled(<<"a", "p", "p">>)

\* C8: a sendMessage started from the chat input has issued one provider
\* request once it is past dispatch, still one when it has settled, and never
\* a second one
C8_OneProviderCall ==
  /\ \A i \in DOMAIN calls :
       /\ calls[i].net <= 1
       /\ calls[i].pc \in {"await", "gen_await", "catch", "finally", "gen_finally"} =>
            calls[i].net = 1
  /\ last.pc # "none" => last.net = 1

\* a call whose only request failed has settled
C8_Witness ==
  /\ last.pc # "none"
  /\ last.failed
  /\ last.net = 1

\* C9: at most one sendMessage is in flight, and while it is the chat input
\* is submitting and its textarea and send button are disabled
C9_OneOutstanding ==
  /\ Len(calls) <= 1
  /\ calls # <<>> =>
       (isSubmitting /\ TextareaDisabled /\ ButtonDisabled(<<"a", "p", "p">>))

\* a provider request is pending
C9_Witness ==
  /\ Len(calls) = 1
  /\ calls[1].pc = "await"
  /\ isConfigValid(llmConfig)

\* C10: openaiClient and geminiClient are never both instantiated
C10_OneClient == ~(openaiClient # Null /\ geminiClient # Null)

\* the Gemini client is the one instantiated, the provider once was OpenAI
C10_Witness ==
  /\ geminiClient # Null
  /\ openaiClient = Null
  /\ llmConfig.provider = "gemini"

\* C11: in the application, where messages come from sendMessage only, a user
\* message never carries codeBlocks; an assistant message carries none (an
\* error message) or a sequence of blocks, possibly empty
C11_UserWithoutBlocks ==
  \A k \in DOMAIN messages :
    /\ messages[k].role = "user" => messages[k].codeBlocks = NoBlocks
    /\ messages[k].role \in Roles

\* a user message stands before a reply from which a block was extracted
C11_Witness ==
  /\ Len(messages) = 2
  /\ messages[1].role = "user"
  /\ messages[1].codeBlocks = NoBlocks
  /\ messages[2].role = "assistant"
  /\ messages[2].content \in Replies
  /\ Len(messages[2].codeBlocks) = 1
  /\ messages[2].codeBlocks[1].code = <<"a">>

\* ------------------------------------------- fenced texts, region by region
\* runs of text without a backtick
PlainRuns == {<<>>, <<"j">>, <<"\n">>}
\* what can follow an opening fence: nothing, a word, a token with a sign
Tokens == {<<>>, <<"j">>, <<"j", "+">>}
WordTokens == {<<>>, <<"j">>}
\* bodies: empty, or the word j between blanks
Bodies == {<<>>, <<"j">>, <<"\n", "j">>, <<"j", "\n">>}
Trimmed(body) == IF body = <<>> THEN <<>> ELSE <<"j">>
Tag(token) == IF token = <<>> THEN <<"t", "e", "x", "t">> ELSE token

\* a fenced region followed by a plain run
Parts(tokens) == [token : tokens, body : Bodies, plain : PlainRuns]
RenderPart(part) ==
  Tick3 \o part.token \o <<"\n">> \o part.body \o Tick3 \o part.plain

\* a plain run, then at most n <= 2 fenced regions each followed by a plain run
Fenced(tokens, n) ==
  [lead : PlainRuns,
   parts : {<<>>} \cup {<<a>> : a \in Parts(tokens)}
             \cup {<<a, b>> : a \in {x \in Parts(tokens) : n >= 2}, b \in Parts(tokens)}]

RECURSIVE RenderParts(_)
RenderParts(parts) ==
  IF parts = <<>> THEN <<>> ELSE RenderPart(Head(parts)) \o RenderParts(Tail(parts))

Render(f) == f.lead \o RenderParts(f.parts)

FencedTexts == {Render(f) : f \in Fenced(Tokens, 2)}
FencedOf(text) == CHOOSE f \in Fenced(Tokens, 2) : Render(f) = text

\* the blocks of a fenced text: tag and trimmed body of each region, in order
ExpectedBlocks(f) ==
  [k \in 1..Len(f.parts) |->
     [language |-> Tag(f.parts[k].token), code |-> Trimmed(f.parts[k].body)]]

RECURSIVE ConcatCode(_)
ConcatCode(blocks) ==
  IF blocks = <<>> THEN <<>> ELSE Head(blocks).code \o ConcatCode(Tail(blocks))

\* a fenced text with word tokens, then an opening fence that is never closed
Unterminated ==
  [fenced : Fenced(WordTokens, 1), token : Tokens, body : {<<>>, <<"\n">>, <<"\n", "j">>}]
RenderUnterminated(u) == Render(u.fenced) \o Tick3 \o u.token \o u.body
UnterminatedTexts == {RenderUnterminated(u) : u \in Unterminated}
UnterminatedOf(text) == CHOOSE u \in Unterminated : RenderUnterminated(u) = text

\* fence delimiters in a text made of Pieces
FenceCount(text) == Cardinality({k \in DOMAIN text : text[k] = Backtick}) \div 3

\* the replies among the messages: assistant messages that are no error text
IsReply(m) == m.role = "assistant" /\ Head(m.content) # "Error: "

\* C12: for a reply made of N fenced regions and the plain runs around them,
\* extraction returns N blocks and the plain runs, and what it returns,
\* concatenated in order, is the reply
C12_SegmentsReconstructText ==
  \A k \in DOMAIN messages :
    (IsReply(messages[k]) /\ messages[k].content \in FencedTexts) =>
      /\ Len(messages[k].codeBlocks) = Len(FencedOf(messages[k].content).parts)
      /\ ConcatCode(messages[k].codeBlocks) = messages[k].content

\* C13: a reply never yields more blocks than it has pairs of fence
\* delimiters, and a reply that ends in an opening fence without a closing one
\* yields the blocks of the regions before that fence and nothing else
C13_UnterminatedFenceIsText ==
  \A k \in DOMAIN messages :
    IsReply(messages[k]) =>
      /\ 2 * Len(messages[k].codeBlocks) <= FenceCount(messages[k].content)
      /\ messages[k].content \in UnterminatedTexts =>
           messages[k].codeBlocks =
             ExpectedBlocks(UnterminatedOf(messages[k].content).fenced)

\* a reply with one closed region and then an opening fence never closed
C13_Witness ==
  /\ Len(messages) = 2
  /\ messages[2].content =
       Tick3 \o <<"\n", "j">> \o Tick3 \o Tick3 \o <<"j", "\n">>
  /\ Len(messages[2].codeBlocks) = 1
  /\ messages[2].codeBlocks[1].code = <<"j">>

\* C14: every fenced region of a reply yields a block tagged with its language
\* token, or with text when it has none
C14_TokenBecomesTag ==
  \A k \in DOMAIN messages :
    (IsReply(messages[k]) /\ messages[k].content \in FencedTexts) =>
      LET parts == FencedOf(messages[k].content).parts
      IN \A r \in DOMAIN parts :
           /\ r \in DOMAIN messages[k].codeBlocks
           /\ messages[k].codeBlocks[r].language = Tag(parts[r].token)

\* the error texts an adapter or the network can produce
AdapterErrors ==
  {ErrorMessage(kind, provider) : kind \in Failures, provider \in Providers}
    \cup {<<"OpenAI client not initialized">>, <<"Gemini client not initialized">>,
           <<"Base URL required for custom API">>}

\* C15: extraction returns a list of blocks for every reply; a reply with
\* fewer than two fence delimiters gets the empty list and is stored with its
\* text as an assistant message; every error message in the conversation
\* carries an error of an adapter, never one of the extraction
C15_ExtractionNeverFails ==
  \A k \in DOMAIN messages :
    messages[k].role = "assistant" =>
      IF IsReply(messages[k])
      THEN /\ 2 * Len(messages[k].codeBlocks) <= Len(messages[k].content)
           /\ FenceCount(messages[k].content) < 2 => messages[k].codeBlocks = <<>>
      ELSE Tail(messages[k].content) \in AdapterErrors

\* a call has settled without failure on a reply that is one opening fence,
\* a token and a body: the reply is stored as it came, with no block
C15_Witness ==
  /\ calls = <<>>
  /\ last.pc = "done"
  /\ ~last.failed
  /\ Len(messages) = 2
  /\ messages[2].role = "assistant"
  /\ messages[2].content = Tick3 \o <<"j", "\n", "j">>
  /\ messages[2].codeBlocks = <<>>

\* the parts that make a document complete
HasDoctype(doc) == doc # <<>> /\ Head(doc) \in {"<!DOCTYPE", "<!doctype"}
HasStructure(doc) ==
  Includes(doc, <<"<html">>) /\ Includes(doc, <<"<head">>) /\ Includes(doc, <<"<body">>)

C17_AlwaysCompleteDocument ==
  \A s \in Surfaces : HasDoctype(s.document) /\ HasStructure(s.document)

\* C18 as stated: every surface that shows preview content is sandboxed and
\* allows neither top-level navigation nor popups
C18_OnlySandboxedSurfaces ==
  \A s \in Surfaces :
    /\ s.sandboxed
    /\ "allow-top-navigation" \notin s.allow
    /\ "allow-popups" \notin s.allow

\* C19: an adapter whose client was never built throws without a request and
\* without a text; an adapter whose request comes back with a non-success
\* status throws without a text
C19_AdapterFailsWithoutText ==
  /\ (/\ adapterRun.pc # "idle"
      /\ adapterRun.provider \in {"openai", "gemini"}
      /\ adapterRun.client = Null)
       => /\ adapterRun.pc = "thrown"
          /\ adapterRun.error # NoError
          /\ adapterRun.text = NoText
          /\ adapterRun.net = 0
  /\ adapterRun.outcome = "status"
       => /\ adapterRun.pc = "thrown"
          /\ adapterRun.error # NoError
          /\ adapterRun.text = NoText

\* the Gemini adapter called with a key in the configuration and no client
C19_Witness ==
  /\ adapterRun.pc = "thrown"
  /\ adapterRun.provider = "gemini"
  /\ adapterRun.client = Null
  /\ adapterRun.apiKey = "sk-1"
  /\ adapterRun.error = <<"Gemini client not initialized">>

\* C20: the adapter gets the whole conversation as the store holds it when
\* the adapter is called, ending with the user message of this call, and the
\* provider and credentials the store held then; nothing of this changes
\* while the request is pending, whatever is done to the store
C20_HistoryAndConfigAtDispatch ==
  /\ [][\A i \in DOMAIN calls :
          SetTyping(i) =>
            LET h == calls'[i].handed
            IN /\ h.history = messages
               /\ h.history # <<>>
               /\ h.history[Len(h.history)].role = "user"
               /\ h.history[Len(h.history)].content = calls[i].content
               /\ h.provider = llmConfig.provider
               /\ h.credentials = Credentials([llmConfig |-> llmConfig,
                                               openaiClient |-> openaiClient,
                                               geminiClient |-> geminiClient])]_vars
  /\ [][\A i \in DOMAIN calls :
          (calls[i].pc = "await" /\ Len(calls') = Len(calls))
            => calls'[i].handed = calls[i].handed]_vars

\* a pending request that was given two messages, the store's provider and
\* key having been changed since
C20_Witness ==
  \E i \in DOMAIN calls :
    /\ calls[i].pc = "await"
    /\ Len(calls[i].handed.history) = 2
    /\ llmConfig.provider # calls[i].handed.provider
    /\ llmConfig.apiKey # calls[i].llmConfig.apiKey

\* C21: whenever no callback is running, isTyping is true exactly when a
\* regular-mode provider request is pending
C21_TypingIffPending ==
  Idle => (isTyping <=> \E i \in DOMAIN calls : calls[i].pc = "await")

\* a request still pending after the chat was cleared behind it
C21_Witness ==
  /\ Idle
  /\ isTyping
  /\ calls # <<>>
  /\ calls[1].pc = "await"
  /\ messages = <<>>

\* C22: openaiClient exists exactly when the provider is openai and the key is
\* not empty, geminiClient exactly when the provider is gemini and the key is
\* not empty (so neither exists for claude and custom)
C22_ClientsFollowConfig ==
  /\ openaiClient # Null <=> (llmConfig.provider = "openai" /\ Truthy(llmConfig.apiKey))
  /\ geminiClient # Null <=> (llmConfig.provider = "gemini" /\ Truthy(llmConfig.apiKey))

\* the Gemini client built from the key, the OpenAI client gone
C22_Witness ==
  /\ llmConfig.provider = "gemini"
  /\ llmConfig.apiKey = "sk-1"
  /\ geminiClient = "sk-1"
  /\ openaiClient = Null

\* C23 as stated: every assistant message of the conversation comes right
\* after a user message
C23_AssistantFollowsUser ==
  \A k \in DOMAIN messages :
    messages[k].role = "assistant" => (k > 1 /\ messages[k - 1].role = "user")

\* C24 as stated: no two messages of the conversation have the same id
C24_DistinctIds ==
  \A j, k \in DOMAIN messages : j # k => messages[j].id # messages[k].id

\* C25: a sendMessage made in cursor mode, from its first step to its last,
\* changes neither the conversation nor isTyping
C25_CursorLeavesChat ==
  [][(\/ chatMode = "cursor" /\ \E text \in Inputs : HandleSubmit(text)
      \/ \E i \in DOMAIN calls : Cursor(i))
       => UNCHANGED <<messages, isTyping>>]_vars

\* a cursor-mode call that came back with commands, a conversation standing
C25_Witness ==
  /\ last.chatMode = "cursor"
  /\ last.pc = "done"
  /\ Len(messages) = 2
  /\ \E k \in DOMAIN cursorSessions : cursorSessions[k].commands # <<>>

\* C26 as stated: after a cursor-mode sendMessage whose provider request
\* failed, no session without commands is the active session
C26_FailedGenerationLeavesNoSession ==
  (calls = <<>> /\ last.chatMode = "cursor" /\ last.failed /\ last.net = 1)
    => \A k \in DOMAIN cursorSessions :
         cursorSessions[k].id = activeCursorSession => cursorSessions[k].commands # <<>>

\* the sessions a step has changed, by position
ChangedSessions ==
  {k \in DOMAIN cursorSessions :
     k \in DOMAIN cursorSessions' => cursorSessions'[k] # cursorSessions[k]}

\* C27 as stated: when the provider call of generateCommands comes back, the
\* one session that was active at the call gets the commands and every other
\* session of the store is as it was
C27_CommandsOnCapturedSession ==
  [][\A i \in DOMAIN calls :
       (\E response \in GenReplies : GenReply(i, response))
         => /\ Len(cursorSessions') = Len(cursorSessions)
            /\ Cardinality(ChangedSessions) <= 1
            /\ \A k \in ChangedSessions : cursorSessions[k].id = calls[i].session]_vars

\* the commands of session k a step has changed, by position
ChangedCommands(k) ==
  {c \in DOMAIN cursorSessions[k].commands :
     c \in DOMAIN cursorSessions'[k].commands
       => cursorSessions'[k].commands[c] # cursorSessions[k].commands[c]}

\* C28 as stated: the first step of executeCommand leaves its command
\* executing, its last step leaves it completed or in error with an output,
\* and both change at most one command, in at most one session
C28_ExecuteOneCommand ==
  [][/\ \A sessionId \in SessionIds, commandId \in CommandIds :
          ExecuteCommand(sessionId, commandId)
            => /\ Cardinality(ChangedSessions) <= 1
               /\ \A k \in ChangedSessions : Cardinality(ChangedCommands(k)) <= 1
               /\ \A k \in DOMAIN cursorSessions' :
                    \A c \in DOMAIN cursorSessions'[k].commands :
                      (cursorSessions'[k].id = sessionId
                         /\ cursorSessions'[k].commands[c].id = commandId)
                        => cursorSessions'[k].commands[c].status = "executing"
     /\ ExecuteDone
          => /\ Cardinality(ChangedSessions) <= 1
             /\ \A k \in ChangedSessions : Cardinality(ChangedCommands(k)) <= 1
             /\ \A k \in DOMAIN cursorSessions' :
                  \A c \in DOMAIN cursorSessions'[k].commands :
                    (cursorSessions'[k].id = Head(execs).sessionId
                       /\ cursorSessions'[k].commands[c].id = Head(execs).commandId)
                      => /\ cursorSessions'[k].commands[c].status \in {"completed", "error"}
                         /\ cursorSessions'[k].commands[c].output # Undefined]_vars

\* a generateCommands call is between its set of the flag and its finally
Generating == \E i \in DOMAIN calls : calls[i].pc \in {"gen_await", "gen_finally"}

\* C30: isGeneratingCommands is false whenever no generateCommands call is
\* under way, and a call that finds no key or no active session leaves the
\* flag as it is
C30_FlagOnlyWhileGenerating ==
  /\ [](~Generating => ~isGeneratingCommands)
  /\ [][\A i \in DOMAIN calls :
          (/\ GenerateCommands(i)
           /\ (~Truthy(llmConfig.apiKey) \/ activeCursorSession = NoSession))
            => UNCHANGED isGeneratingCommands]_vars

\* a call that found a key and no active session has thrown, after an earlier
\* call had stored its commands
C30_Witness ==
  /\ calls = <<>>
  /\ last.pc = "thrown"
  /\ last.net = 0
  /\ Truthy(llmConfig.apiKey)
  /\ activeCursorSession = NoSession
  /\ ~isGeneratingCommands
  /\ \E k \in DOMAIN cursorSessions : cursorSessions[k].commands # <<>>

\* C29: unless the provider is custom, the model is one of the provider's
\* listed models; a provider switch selects the provider's first model, keeps
\* the base URL only for custom, and leaves the key as it is
C29_ModelOfProvider ==
  /\ [](llmConfig.provider # "custom" =>
          \E k \in DOMAIN Models(llmConfig.provider) :
            Models(llmConfig.provider)[k] = llmConfig.model)
  /\ [][\A p \in Providers :
          HandleProviderChange(p)
            => /\ llmConfig'.provider = p
               /\ llmConfig'.model = Models(p)[1]
               /\ llmConfig'.apiKey = llmConfig.apiKey
               /\ llmConfig'.baseURL = IF p = "custom" THEN llmConfig.baseURL ELSE Undefined]_vars

\* back on Claude with its first model, the key kept and the base URL of the
\* custom provider gone
C29_Witness ==
  /\ llmConfig.provider = "claude"
  /\ llmConfig.model = "claude-3-opus-20240229"
  /\ llmConfig.apiKey = "sk-1"
  /\ llmConfig.baseURL = Undefined
  /\ chatMode = "cursor"

====
